---- MODULE Spec2Model ----
(***************************************************************************)
(* A model of backend/app.py of AI-Job-Agent: the SQLite job store, the    *)
(* cycle run_full_cycle (search, upsert, draft-and-apply, Gmail reply      *)
(* matching) and the threads that start cycles (the APScheduler job, a     *)
(* Flask /run_now request, the --run-once command line).                   *)
(*                                                                         *)
(* Text that the code searches in (company names, mail headers, posted     *)
(* dates) is a sequence of one-character strings, so that lower() and the  *)
(* "in" substring test are computed.  None is Python's None where a text is *)
(* expected.                                                               *)
(***************************************************************************)
EXTENDS Naturals, Sequences, FiniteSets, TLC

VARIABLES
    jobs,          \* table jobs: the rows in id (insertion) order
    applications,  \* table applications: the rows in id order
    mode,          \* APPLY_MODE
    creds,         \* GMAIL_EMAIL and GMAIL_PASSWORD are both set
    pc,            \* per thread: where it is in run_full_cycle
    loc,           \* per thread: the local variables of the running cycle
    started,       \* cycles started so far
    log,           \* per thread: the store writes of the stage its cycle is in
    hist           \* the last direct call of a store function

vars == <<jobs, applications, mode, creds, pc, loc, started, log, hist>>

None == <<"None">>

\* ---------------------------------------------------------------- bounds

\* Cycles that may start in one run of the program.
MaxCycles == 2

\* Messages one inbox search may return.
MaxMsgs == 2

\* The same while cycles of two threads may overlap.
MaxOverlapMsgs == 1

\* Direct calls of the store functions in the store-only specification.
MaxCalls == 3

\* ---------------------------------------------------------------- text

UpperCase == <<"A","B","C","D","E","F","G","H","I","J","K","L","M",
               "N","O","P","Q","R","S","T","U","V","W","X","Y","Z">>

LowerCase == <<"a","b","c","d","e","f","g","h","i","j","k","l","m",
               "n","o","p","q","r","s","t","u","v","w","x","y","z">>

LowerChar(c) ==
    IF \E i \in 1..Len(UpperCase) : UpperCase[i] = c
    THEN LowerCase[CHOOSE i \in 1..Len(UpperCase) : UpperCase[i] = c]
    ELSE c

\* str.lower()
Lower(s) == [i \in 1..Len(s) |-> LowerChar(s[i])]

\* needle in hay
Contains(hay, needle) ==
    \E i \in 0..Len(hay) :
        /\ i + Len(needle) <= Len(hay)
        /\ SubSeq(hay, i + 1, i + Len(needle)) = needle

\* s[:n]
Take(s, n) == IF Len(s) <= n THEN s ELSE SubSeq(s, 1, n)

\* x or ""
OrEmpty(x) == IF x = None THEN <<>> ELSE x

\* ---------------------------------------------------------------- store

Excluded == {"replied", "hired", "closed"}

Statuses == {"new", "queued_manual", "applied", "error", "automation_error",
             "replied", "hired", "closed"}

RowsOf(table, job_id) == {i \in 1..Len(table) : table[i].job_id = job_id}

HasJob(table, job_id) == RowsOf(table, job_id) # {}

\* job.get(key, default)
GetOr(job, key, default) == IF key \in DOMAIN job THEN job[key] ELSE default

\* The INSERT of add_or_update_job, when the UNIQUE constraint lets it through.
InsertJob(table, job) ==
    Append(table, [job_id |-> job.job_id, title |-> job.title,
                   company |-> job.company, location |-> job.location,
                   url |-> job.url, posted_date |-> job.posted_date,
                   status |-> GetOr(job, "status", "new"),
                   applied_at |-> None,
                   notes |-> GetOr(job, "notes", <<>>)])

\* An upsert that rewrites the whole row (INSERT OR REPLACE): status and notes
\* come from the record.
UpdateJobReplacesRow(table, job) ==
    [i \in 1..Len(table) |->
        IF table[i].job_id = job.job_id
        THEN [table[i] EXCEPT !.title = job.title, !.company = job.company,
                              !.location = job.location, !.url = job.url,
                              !.posted_date = job.posted_date,
                              !.status = GetOr(job, "status", "new"),
                              !.notes = GetOr(job, "notes", <<>>)]
        ELSE table[i]]

\* An UPDATE whose SET list lacks the location column.
UpdateJobNoLocation(table, job) ==
    [i \in 1..Len(table) |->
        IF table[i].job_id = job.job_id
        THEN [table[i] EXCEPT !.title = job.title, !.company = job.company,
                              !.url = job.url, !.posted_date = job.posted_date]
        ELSE table[i]]

\* The UPDATE of add_or_update_job.
UpdateJob(table, job) ==
    [i \in 1..Len(table) |->
        IF table[i].job_id = job.job_id
        THEN [table[i] EXCEPT !.title = job.title, !.company = job.company,
                              !.location = job.location, !.url = job.url,
                              !.posted_date = job.posted_date]
        ELSE table[i]]

\* A jobs table whose job_id column is not UNIQUE: the INSERT never raises.
InsertNeverRaises(table, job) == FALSE

\* UNIQUE(job_id): the INSERT raises IntegrityError.
InsertRaises(table, job) == HasJob(table, job.job_id)

\* add_or_update_job run alone.
AddOrUpdateJob(table, job) ==
    IF InsertRaises(table, job) THEN UpdateJob(table, job) ELSE InsertJob(table, job)

\* set_job_status
SetJobStatus(table, job_id, status, notes) ==
    [i \in 1..Len(table) |->
        IF table[i].job_id = job_id
        THEN [table[i] EXCEPT !.status = status, !.notes = notes]
        ELSE table[i]]

\* A rows loop that never records the attempt.
RecordApplicationDropped(table, job_id, cover_text, resume_path, result) == table

\* record_application (attempt_time left out: nothing reads it)
RecordApplication(table, job_id, cover_text, resume_path, result) ==
    Append(table, [job_id |-> job_id, cover |-> cover_text,
                   resume_path |-> resume_path, result |-> result])

StatusOf(table, job_id) ==
    IF HasJob(table, job_id)
    THEN table[CHOOSE i \in RowsOf(table, job_id) : TRUE].status
    ELSE "absent"

\* ---------------------------------------------------------------- listings

\* job_id = (company + "|" + title + "|" + url)[:200]
IdLen == 200

Unknown == <<"U","n","k","n","o","w","n">>

\* The three substrings the scrapers look for in the lowered posted text.
Markers == { <<"t","o","d","a","y">>,
             <<"j","u","s","t"," ","p","o","s","t","e","d">>,
             <<"1"," ","d","a","y">> }

\* A filter that keeps every card with a date tag.
RecentAnyDate(posted) == posted # <<>>

\* posted and ("today" in posted.lower() or ...)
Recent(posted) == posted # <<>> /\ \E m \in Markers : Contains(Lower(posted), m)

\* The dict a scraper appends for one job card.
MakeJob(card, today) ==
    [job_id |-> Take(card.company \o <<"|">> \o OrEmpty(card.title) \o <<"|">>
                       \o OrEmpty(card.url), IdLen),
     title |-> IF OrEmpty(card.title) = <<>> THEN Unknown ELSE card.title,
     company |-> card.company,
     location |-> card.location,
     url |-> card.url,
     posted_date |-> today,
     status |-> "new",
     notes |-> <<>>]

\* The results list of search_indeed / search_naukri for the cards of a page.
RECURSIVE SearchResults(_, _)
SearchResults(cards, today) ==
    IF cards = <<>> THEN <<>>
    ELSE (IF Recent(Head(cards).posted) THEN <<MakeJob(Head(cards), today)>> ELSE <<>>)
         \o SearchResults(Tail(cards), today)

\* Job cards a result page may hold (title, company, location, url as the
\* selectors extract them; posted is the text of the date tag, "" without one).
CardAb == [title |-> <<"T">>, company |-> <<"A","b">>, location |-> <<"X">>,
           url |-> <<"u">>, posted |-> <<"T","o","d","a","y">>]

CardB == [title |-> None, company |-> <<"b">>, location |-> <<"X">>,
          url |-> None, posted |-> <<"1"," ","d","a","y"," ","a","g","o">>]

CardNoCompany == [title |-> <<"T">>, company |-> <<>>, location |-> <<"X">>,
                  url |-> <<"u">>, posted |-> <<"J","u","s","t"," ","p","o","s","t","e","d">>]

CardOld == [title |-> <<"T">>, company |-> <<"A","b">>, location |-> <<"X">>,
            url |-> <<"v">>, posted |-> <<"2"," ","d","a","y","s"," ","a","g","o">>]

CardUndated == [title |-> <<"T">>, company |-> <<"A","b">>, location |-> <<"X">>,
                url |-> <<"w">>, posted |-> <<>>]

\* A result page of each site: no card or one card.
IndeedPages == {<<>>, <<CardAb>>, <<CardOld>>}

NaukriPages == {<<>>, <<CardB>>, <<CardUndated>>}

\* datetime.utcnow().date() during the run; rows of earlier runs carry Earlier.
Dates == {"d2"}

Earlier == "d1"

\* search_indeed: the request raises (the cycle catches it), answers with a
\* status other than 200, or answers with a page.
SearchIndeed(outcome, page, today) ==
    IF outcome = "page" THEN SearchResults(page, today) ELSE <<>>

\* search_naukri: an exception is caught inside and the results so far returned.
SearchNaukri(outcome, page, today) ==
    IF outcome = "page" THEN SearchResults(page, today) ELSE <<>>

\* ---------------------------------------------------------------- apply_to_job

\* What the browser does during one apply_to_job call.  quit_fails is how many
\* of the call's driver.quit() calls raise, counted from the first.
ApplyEnvs ==
    [driver : {"ok", "raises"}, get : {"ok", "raises"},
     file : {"found", "missing"}, upload : {"ok", "raises"},
     button : {"clicked", "missing", "click_raises"},
     submit : {"clicked", "missing", "click_raises"},
     quit_fails : {0, 1, 2}]

\* The dict apply_to_job returns.
ApplyToJob(job, env) ==
    IF job.url = None \/ job.url = <<>> THEN [result |-> "no_url"]
    ELSE IF env.driver = "raises"
        THEN [result |-> "selenium_error", detail |-> <<"driver">>]
    ELSE IF env.get = "raises"
        THEN [result |-> "selenium_error", detail |-> <<"get">>]
    ELSE IF env.file = "found" /\ env.upload = "ok" /\ env.quit_fails = 0
        THEN [result |-> "applied", detail |-> <<"file-uploaded-and-clicked">>]
    ELSE IF env.file = "found" /\ env.upload = "ok" /\ env.quit_fails = 1
        THEN [result |-> "manual_required", detail |-> <<"no file input or error", "quit">>]
    ELSE IF env.quit_fails = 0
        THEN [result |-> "manual_required",
              detail |-> <<"no file input or error",
                           IF env.file = "missing" THEN "no such element" ELSE "upload">>]
    ELSE [result |-> "selenium_error", detail |-> <<"quit">>]

\* The browsers the cycle specifications draw from: one per kind of return.
CycleEnvs ==
    {e \in ApplyEnvs :
        /\ e.get = "ok" /\ e.upload = "ok" /\ e.quit_fails = 0
        /\ e.button = "missing" /\ e.submit = "clicked"
        /\ (e.driver = "raises" => e.file = "found")}

\* str(result)
Str(result) == <<"str", result>>

\* ---------------------------------------------------------------- mail

HdrSubject == <<"s","u","b","j","e","c","t">>

HdrFrom == <<"f","r","o","m">>

\* What the header loop of check_gmail_and_update leaves in frm and subj for one
\* fetched message.  data.hdr is the BODY[HEADER.FIELDS (FROM SUBJECT)] item as
\* lines (name, stripped value); without the item (has_item is FALSE) .decode
\* raises.  subj is bytes (b"") when no line set subject_raw.
ParseHeaders(data) ==
    IF ~data.has_item
    THEN [frm |-> <<>>, subj |-> <<>>, subj_is_bytes |-> FALSE]
    ELSE LET hdr == data.hdr
             S == {i \in 1..Len(hdr) : Lower(hdr[i].name) = HdrSubject}
             F == {i \in 1..Len(hdr) : Lower(hdr[i].name) = HdrFrom}
             last(I) == CHOOSE i \in I : \A k \in I : k <= i
         IN  [frm |-> IF F = {} THEN <<>> ELSE hdr[last(F)].value,
              subj |-> IF S = {} THEN <<>> ELSE hdr[last(S)].value,
              subj_is_bytes |-> S = {}]

\* frm.lower() + " " + subj.lower()
MatchText(frm, subj) == Lower(frm) \o <<" ">> \o Lower(subj)

\* company and (company.lower() in (frm.lower() + " " + subj.lower()))
Matches(company, frm, subj) ==
    company # None /\ company # <<>> /\ Contains(MatchText(frm, subj), Lower(company))

\* f"Email matched: {subj} from {frm}"
ReplyNotes(frm, subj) == <<"Email matched", subj, "from", frm>>

\* The same SELECT without its WHERE clause.
EligibleRowsAll(table) ==
    [i \in 1..Len(table) |->
        [job_id |-> table[i].job_id, company |-> table[i].company,
         status |-> table[i].status]]

\* SELECT job_id, company, status FROM jobs WHERE status NOT IN (...)
EligibleRows(table) ==
    LET keep == SelectSeq(table, LAMBDA r : r.status \notin Excluded)
    IN  [i \in 1..Len(keep) |->
            [job_id |-> keep[i].job_id, company |-> keep[i].company,
             status |-> keep[i].status]]

\* The same SELECT without its WHERE clause.
NewRowsAll(table) ==
    [i \in 1..Len(table) |->
        [job_id |-> table[i].job_id, title |-> table[i].title,
         company |-> table[i].company, url |-> table[i].url,
         status |-> table[i].status]]

\* A SELECT that takes the new rows of this run's date only.
NewRowsOfToday(table) ==
    LET keep == SelectSeq(table, LAMBDA r : r.status = "new" /\ r.posted_date # Earlier)
    IN  [i \in 1..Len(keep) |->
            [job_id |-> keep[i].job_id, title |-> keep[i].title,
             company |-> keep[i].company, url |-> keep[i].url,
             status |-> keep[i].status]]

\* SELECT job_id, title, company, url, status FROM jobs WHERE status='new'
NewRows(table) ==
    LET keep == SelectSeq(table, LAMBDA r : r.status = "new")
    IN  [i \in 1..Len(keep) |->
            [job_id |-> keep[i].job_id, title |-> keep[i].title,
             company |-> keep[i].company, url |-> keep[i].url,
             status |-> keep[i].status]]

\* Messages an inbox search may return.
MsgBoth == [has_item |-> TRUE, hdr |-> << [name |-> <<"F","r","o","m">>, value |-> <<"h","@","a","B">>],
                       [name |-> <<"S","u","b","j","e","c","t">>, value |-> <<"H","i">>] >>]

MsgB == [has_item |-> TRUE, hdr |-> << [name |-> <<"S","U","B","J","E","C","T">>, value |-> <<"B">>],
                    [name |-> <<"f","r","o","m">>, value |-> <<"x">>] >>]

MsgNoSubject == [has_item |-> TRUE, hdr |-> << [name |-> <<"F","r","o","m">>, value |-> <<"h","@","a","B">>] >>]

MsgUnparsed == [has_item |-> FALSE, hdr |-> <<>>]

Msgs == {MsgBoth, MsgB, MsgNoSubject, MsgUnparsed}

RECURSIVE SeqsUpTo(_, _)
SeqsUpTo(S, n) ==
    IF n = 0 THEN {<<>>}
    ELSE SeqsUpTo(S, n - 1) \cup {Append(q, x) : q \in {r \in SeqsUpTo(S, n - 1) : Len(r) = n - 1}, x \in S}

\* What the world outside may hand to a cycle: the result pages of the two
\* sites, the browsers of apply_to_job, the inboxes.
World == [indeed |-> IndeedPages, naukri |-> NaukriPages, envs |-> CycleEnvs,
          inboxes |-> SeqsUpTo(Msgs, MaxMsgs),
          indeed_out |-> {"raises", "not_200", "page"},
          naukri_out |-> {"raises", "page"}, llm |-> {"no_endpoint"}]

\* A smaller world for the runs in which cycles overlap.  A search that
\* raises leaves the cycle with the same results as an empty page, so only the
\* empty page is kept.
OverlapWorld == [indeed |-> {<<>>, <<CardAb>>}, naukri |-> {<<>>, <<CardB>>},
                 envs |-> {e \in CycleEnvs : e.driver = "ok"},
                 inboxes |-> SeqsUpTo({MsgBoth, MsgNoSubject}, MaxOverlapMsgs),
                 indeed_out |-> {"not_200", "page"},
                 naukri_out |-> {"page"}, llm |-> {"no_endpoint"}]

\* ---------------------------------------------------------------- threads

\* "scheduler" is the APScheduler worker that runs the interval job; "main" is
\* the main thread under --run-once and a Flask request thread serving
\* POST /run_now otherwise.
Threads == {"scheduler", "main"}

Modes == {"auto", "manual"}

ResumePath == "RESUME_PATH"

NoResult == [result |-> "None"]

Loc0 == [jobs_found |-> <<>>, rows |-> <<>>, cover |-> "None", result |-> NoResult,
         msgs |-> <<>>, mi |-> 0, frm |-> <<>>, subj |-> <<>>,
         subj_is_bytes |-> FALSE, rrows |-> <<>>, drafted |-> <<>>,
         pre |-> [jobs |-> <<>>, napps |-> 0, n |-> 0], rec_out |-> "none",
         cards |-> <<>>, errs |-> {}, exc |-> "none"]

\* Rows that earlier runs left in the database file (init_db keeps them:
\* CREATE TABLE IF NOT EXISTS).  hired and closed are set by hand.
StoredRow(card, status) == [MakeJob(card, Earlier) EXCEPT !.status = status]

InitStores ==
    { <<>>,
      InsertJob(<<>>, StoredRow(CardAb, "replied")),
      InsertJob(InsertJob(<<>>, StoredRow(CardAb, "hired")), StoredRow(CardB, "closed")),
      InsertJob(<<>>, StoredRow(CardNoCompany, "new")) }

Init ==
    /\ jobs \in InitStores
    /\ applications = <<>>
    /\ mode \in Modes
    /\ creds \in BOOLEAN
    /\ pc = [p \in Threads |-> "idle"]
    /\ loc = [p \in Threads |-> Loc0]
    /\ started = 0
    /\ log = [p \in Threads |-> <<>>]
    /\ hist = [n |-> 0]

\* Thread p is inside run_full_cycle; "raised" is where an exception that
\* left run_full_cycle puts the thread.
Running(p) == pc[p] \notin {"idle", "raised"}

\* run_full_cycle with no try around the searches.
CaughtInReconcileOnly(stage) == stage = "reconcile"

\* The try statements of run_full_cycle: around each search and around
\* check_gmail_and_update, each with except Exception.
Caught(stage) == stage \in {"indeed", "naukri", "reconcile"}

\* An exception of the given kind is raised in a stage of thread p's cycle,
\* whose locals are l: handled is where the cycle goes on when the stage's try
\* catches it.
Raise(p, l, stage, kind, handled) ==
    IF Caught(stage)
    THEN /\ loc' = [loc EXCEPT ![p] = l]
         /\ pc' = [pc EXCEPT ![p] = handled]
    ELSE /\ loc' = [loc EXCEPT ![p] = [l EXCEPT !.exc = kind]]
         /\ pc' = [pc EXCEPT ![p] = "raised"]

Alone(p) == \A q \in Threads \ {p} : ~Running(q)

\* The tables as a stage of thread p's cycle finds them and the number of
\* cycles started by then, kept for the stages that begin while no other cycle
\* runs.
Before(p) ==
    IF Alone(p) THEN [jobs |-> jobs, napps |-> Len(applications), n |-> started]
    ELSE [jobs |-> <<>>, napps |-> 0, n |-> 0]

Env == <<mode, creds, hist>>

\* One store write of thread p's cycle, as the log keeps it.
Wrote(p, op, job_id) ==
    log' = [log EXCEPT ![p] = Append(@, [op |-> op, job_id |-> job_id])]

\* A trigger calls run_full_cycle: the scheduler's interval job, run_now, or
\* the --run-once branch of __main__.  Nothing in the code holds a start back
\* while another thread's cycle runs.  The threads run the same code, so the
\* first cycle of a run is taken to be the scheduler's (due 5 s after import).
Start(p) ==
    /\ ~Running(p) /\ started < MaxCycles
    /\ started = 0 => p = "scheduler"
    /\ pc' = [pc EXCEPT ![p] = "search"]
    /\ loc' = [loc EXCEPT ![p] = Loc0]
    /\ log' = [log EXCEPT ![p] = <<>>]
    /\ started' = started + 1
    /\ UNCHANGED <<jobs, applications, Env>>

\* jobs_found += search_indeed(...); jobs_found += search_naukri(...)
Search(p, w) ==
    /\ pc[p] = "search"
    /\ \E today \in Dates,
          o1 \in w.indeed_out, p1 \in w.indeed,
          o2 \in w.naukri_out, p2 \in w.naukri :
        /\ o1 # "page" => p1 = <<>>
        /\ o2 # "page" => p2 = <<>>
        /\ LET found == [loc[p] EXCEPT
                            !.jobs_found = SearchIndeed(o1, p1, today)
                                           \o SearchNaukri(o2, p2, today),
                            !.cards = p1 \o p2,
                            !.errs = {src \in {"indeed"} : o1 = "raises"}
                                     \cup {src \in {"naukri"} : o2 = "raises"}]
           IN  IF o1 = "raises"
               THEN Raise(p, found, "indeed", "http", "upsert")
               ELSE /\ loc' = [loc EXCEPT ![p] = found]
                    /\ pc' = [pc EXCEPT ![p] = "upsert"]
    /\ UNCHANGED <<jobs, applications, started, log, Env>>

\* add_or_update_job(j), the INSERT: it commits, or raises IntegrityError.
UpsertInsert(p) ==
    /\ pc[p] = "upsert" /\ loc[p].jobs_found # <<>>
    /\ LET j == Head(loc[p].jobs_found) IN
        IF InsertRaises(jobs, j)
        THEN /\ pc' = [pc EXCEPT ![p] = "upsert_update"]
             /\ UNCHANGED <<jobs, loc, log>>
        ELSE /\ jobs' = InsertJob(jobs, j)
             /\ Wrote(p, "insert", j.job_id)
             /\ loc' = [loc EXCEPT ![p].jobs_found = Tail(@)]
             /\ UNCHANGED pc
    /\ UNCHANGED <<applications, started, Env>>

\* add_or_update_job(j), the UPDATE in the except branch.
UpsertUpdate(p) ==
    /\ pc[p] = "upsert_update"
    /\ LET j == Head(loc[p].jobs_found) IN
        /\ jobs' = UpdateJob(jobs, j)
        /\ Wrote(p, "update", j.job_id)
    /\ loc' = [loc EXCEPT ![p].jobs_found = Tail(@)]
    /\ pc' = [pc EXCEPT ![p] = "upsert"]
    /\ UNCHANGED <<applications, started, Env>>

\* The upsert loop is over: SELECT ... WHERE status='new', rows = fetchall().
SelectNew(p) ==
    /\ pc[p] = "upsert" /\ loc[p].jobs_found = <<>>
    /\ loc' = [loc EXCEPT ![p].rows = NewRows(jobs), ![p].drafted = NewRows(jobs),
                          ![p].pre = Before(p), ![p].cards = <<>>]
    /\ log' = [log EXCEPT ![p] = <<>>]
    /\ pc' = [pc EXCEPT ![p] = "draft"]
    /\ UNCHANGED <<jobs, applications, started, Env>>

\* local_llm_generate: the endpoint's text, the fallback after an endpoint
\* error, or the stub without an endpoint.
LocalLlmGenerate(outcome) ==
    IF outcome = "ok" THEN "text"
    ELSE IF outcome = "error" THEN "[LLM failure]"
    ELSE "stub"

LlmOutcomes == {"no_endpoint", "ok", "error"}

\* The result apply_to_job hands back in auto mode; manual mode does not call it.
Attempt(md, job, env) == IF md = "auto" THEN ApplyToJob(job, env) ELSE NoResult

\* The result text record_application stores for the row.
RecordedResult(md, result) ==
    IF md = "auto" THEN Str(result) ELSE <<"queued_for_manual">>

\* Top of the rows loop: the cover text, in auto mode apply_to_job, then
\* record_application(job_id, cover_text, RESUME_PATH, ...).
DraftAndRecord(p, w) ==
    /\ pc[p] = "draft" /\ loc[p].rows # <<>>
    /\ LET row == Head(loc[p].rows)
           job == [job_id |-> row.job_id, title |-> row.title,
                   company |-> row.company, url |-> row.url]
       IN \E llm \in w.llm, env \in w.envs :
            LET cover == LocalLlmGenerate(llm)
                result == Attempt(mode, job, env)
            IN /\ loc' = [loc EXCEPT ![p].cover = cover, ![p].result = result]
               /\ applications' = RecordApplication(applications, row.job_id, cover,
                                      ResumePath, RecordedResult(mode, result))
               /\ Wrote(p, "app", row.job_id)
    /\ pc' = [pc EXCEPT ![p] = "set_status"]
    /\ UNCHANGED <<jobs, started, Env>>

\* The rows loop without its elif branch: manual_required falls into the else.
DraftStatusNoElif(md, result) ==
    IF md = "auto"
    THEN IF GetOr(result, "result", "None") = "applied"
         THEN [status |-> "applied", notes |-> Str(result)]
         ELSE [status |-> "error", notes |-> Str(result)]
    ELSE [status |-> "queued_manual", notes |-> <<"Awaiting manual approval to apply">>]

\* The status and notes the draft-and-apply stage writes for an apply result.
DraftStatus(md, result) ==
    IF md = "auto"
    THEN IF GetOr(result, "result", "None") = "applied"
         THEN [status |-> "applied", notes |-> Str(result)]
         ELSE IF GetOr(result, "result", "None") = "manual_required"
         THEN [status |-> "queued_manual", notes |-> GetOr(result, "detail", <<>>)]
         ELSE [status |-> "error", notes |-> Str(result)]
    ELSE [status |-> "queued_manual", notes |-> <<"Awaiting manual approval to apply">>]

\* set_job_status(job_id, ...) at the end of the loop body.
SetStatus(p) ==
    /\ pc[p] = "set_status"
    /\ LET row == Head(loc[p].rows)
           w == DraftStatus(mode, loc[p].result)
       IN /\ jobs' = SetJobStatus(jobs, row.job_id, w.status, w.notes)
          /\ Wrote(p, "set", row.job_id)
    /\ loc' = [loc EXCEPT ![p].rows = Tail(@), ![p].cover = "None",
                          ![p].result = NoResult]
    /\ pc' = [pc EXCEPT ![p] = "draft"]
    /\ UNCHANGED <<applications, started, Env>>

\* Top of the message loop for message k: the header lines are parsed, then
\* the eligible jobs are selected.
NextMessage(l, k, table) ==
    LET h == ParseHeaders(l.msgs[k]) IN
        [l EXCEPT !.mi = k, !.frm = h.frm, !.subj = h.subj,
                  !.subj_is_bytes = h.subj_is_bytes, !.rrows = EligibleRows(table)]

\* The rows loop is over; check_gmail_and_update up to the first message: it
\* returns early without credentials or without messages, and connecting,
\* logging in, searching or fetching may raise (caught by the cycle).
CheckGmail(p, w) ==
    /\ pc[p] = "draft" /\ loc[p].rows = <<>>
    /\ LET l == [loc[p] EXCEPT !.drafted = <<>>] IN
       IF ~creds
       THEN /\ loc' = [loc EXCEPT ![p] = [l EXCEPT !.rec_out = "skipped"]]
            /\ pc' = [pc EXCEPT ![p] = "finish"]
       ELSE \E outcome \in {"imap_error", "fetched"}, inbox \in w.inboxes :
                /\ outcome # "fetched" => inbox = <<>>
                /\ IF outcome = "imap_error"
                   THEN Raise(p, [l EXCEPT !.rec_out = "imap_error"],
                              "reconcile", "imap", "finish")
                   ELSE IF inbox = <<>>
                   THEN /\ loc' = [loc EXCEPT ![p] = [l EXCEPT !.rec_out = "no_messages"]]
                        /\ pc' = [pc EXCEPT ![p] = "finish"]
                   ELSE /\ loc' = [loc EXCEPT ![p] =
                                    NextMessage([l EXCEPT !.msgs = inbox, !.pre = Before(p)],
                                                1, jobs)]
                        /\ pc' = [pc EXCEPT ![p] = "rec_match"]
    /\ log' = [log EXCEPT ![p] = <<>>]
    /\ UNCHANGED <<jobs, applications, started, Env>>

\* The test of one selected row raises TypeError: company is not empty and
\* subj is bytes, so str + bytes is evaluated.
MatchRaises(row, subj_is_bytes) ==
    row.company # None /\ row.company # <<>> /\ subj_is_bytes

\* One selected row against the current message.
RecMatch(p) ==
    /\ pc[p] = "rec_match" /\ loc[p].rrows # <<>>
    /\ LET row == Head(loc[p].rrows) IN
        IF MatchRaises(row, loc[p].subj_is_bytes)
        THEN /\ Raise(p, [loc[p] EXCEPT !.rec_out = "type_error"],
                       "reconcile", "type", "finish")
             /\ UNCHANGED <<jobs, log>>
        ELSE /\ loc' = [loc EXCEPT ![p].rrows = Tail(@)]
             /\ UNCHANGED pc
             /\ IF Matches(row.company, loc[p].frm, loc[p].subj)
                THEN /\ jobs' = SetJobStatus(jobs, row.job_id, "replied",
                                             ReplyNotes(loc[p].frm, loc[p].subj))
                     /\ Wrote(p, "set", row.job_id)
                ELSE UNCHANGED <<jobs, log>>
    /\ UNCHANGED <<applications, started, Env>>

\* The rows of this message are done: the next message, or close and logout.
RecNext(p) ==
    /\ pc[p] = "rec_match" /\ loc[p].rrows = <<>>
    /\ IF loc[p].mi < Len(loc[p].msgs)
       THEN /\ loc' = [loc EXCEPT ![p] = NextMessage(@, loc[p].mi + 1, jobs)]
            /\ UNCHANGED pc
       ELSE /\ loc' = [loc EXCEPT ![p].rec_out = "ok"]
            /\ pc' = [pc EXCEPT ![p] = "finish"]
    /\ UNCHANGED <<jobs, applications, started, log, Env>>

\* "Run finished": run_full_cycle returns and its locals are gone.
Finish(p) ==
    /\ pc[p] = "finish"
    /\ pc' = [pc EXCEPT ![p] = "idle"]
    /\ loc' = [loc EXCEPT ![p] = Loc0]
    /\ log' = [log EXCEPT ![p] = <<>>]
    /\ UNCHANGED <<jobs, applications, started, Env>>

\* The program: each thread runs cycles whenever its trigger fires.
Next ==
    \/ \E p \in Threads : Start(p)
    \/ \E p \in Threads : Search(p, OverlapWorld)
    \/ \E p \in Threads : UpsertInsert(p)
    \/ \E p \in Threads : UpsertUpdate(p)
    \/ \E p \in Threads : SelectNew(p)
    \/ \E p \in Threads : DraftAndRecord(p, OverlapWorld)
    \/ \E p \in Threads : SetStatus(p)
    \/ \E p \in Threads : CheckGmail(p, OverlapWorld)
    \/ \E p \in Threads : RecMatch(p)
    \/ \E p \in Threads : RecNext(p)
    \/ \E p \in Threads : Finish(p)

Spec == Init /\ [][Next]_vars

\* The runs of the program in which no cycle overlaps another: a thread
\* steps only while the other one is idle.
NextSolo ==
    \/ \E p \in Threads : Alone(p) /\ Start(p)
    \/ \E p \in Threads : Alone(p) /\ Search(p, World)
    \/ \E p \in Threads : Alone(p) /\ UpsertInsert(p)
    \/ \E p \in Threads : Alone(p) /\ UpsertUpdate(p)
    \/ \E p \in Threads : Alone(p) /\ SelectNew(p)
    \/ \E p \in Threads : Alone(p) /\ DraftAndRecord(p, World)
    \/ \E p \in Threads : Alone(p) /\ SetStatus(p)
    \/ \E p \in Threads : Alone(p) /\ CheckGmail(p, World)
    \/ \E p \in Threads : Alone(p) /\ RecMatch(p)
    \/ \E p \in Threads : Alone(p) /\ RecNext(p)
    \/ \E p \in Threads : Alone(p) /\ Finish(p)

SpecSolo == Init /\ [][NextSolo]_vars

\* ---------------------------------------------------------------- store calls

\* The job store called directly, one call after the other, with any record:
\* a record may carry any status and notes, or neither key.
WithoutStatus(job) == [k \in DOMAIN job \ {"status", "notes"} |-> job[k]]

Renamed ==
    [MakeJob(CardAb, "d2") EXCEPT !.title = <<"N">>, !.company = <<"b">>,
                                  !.location = <<"Y">>, !.url = None]

StoreJobs ==
    {[MakeJob(CardAb, d) EXCEPT !.status = st, !.notes = n] :
        d \in {Earlier, "d2"}, st \in {"new", "hired"}, n \in {<<>>, <<"n">>}}
    \cup {WithoutStatus(MakeJob(c, "d2")) : c \in {CardAb, CardB}}
    \cup {Renamed}

InitStore ==
    /\ jobs \in InitStores
    /\ applications = <<>>
    /\ mode = "manual"
    /\ creds = FALSE
    /\ pc = [p \in Threads |-> "idle"]
    /\ loc = [p \in Threads |-> Loc0]
    /\ started = 0
    /\ log = [p \in Threads |-> <<>>]
    /\ hist = [n |-> 0]

\* add_or_update_job(job); hist keeps the call, the table before it, and
\* whether the call before was the same call.
CallUpsert ==
    \E job \in StoreJobs :
        /\ hist.n < MaxCalls
        /\ jobs' = AddOrUpdateJob(jobs, job)
        /\ hist' = [n |-> hist.n + 1, op |-> "upsert", job |-> job, pre |-> jobs,
                    again |-> (hist.n > 0 /\ hist.op = "upsert" /\ hist.job = job)]
        /\ UNCHANGED <<applications, mode, creds, pc, loc, started, log>>

\* set_job_status(job_id, status, notes)
CallSetStatus ==
    \E c \in {CardAb, CardB}, st \in {"new", "applied", "replied"} :
        LET job == [job_id |-> MakeJob(c, "d2").job_id, status |-> st, notes |-> <<"s">>] IN
        /\ hist.n < MaxCalls
        /\ jobs' = SetJobStatus(jobs, job.job_id, st, job.notes)
        /\ hist' = [n |-> hist.n + 1, op |-> "set_status", job |-> job, pre |-> jobs,
                    again |-> FALSE]
        /\ UNCHANGED <<applications, mode, creds, pc, loc, started, log>>

NextStore == CallUpsert \/ CallSetStatus

SpecStore == InitStore /\ [][NextStore]_vars

\* ---------------------------------------------------------------- claims

RowOf(table, job_id) == table[CHOOSE i \in RowsOf(table, job_id) : TRUE]

JobIds(table) == {table[i].job_id : i \in 1..Len(table)}

\* C2: an upsert of a job_id that is already stored writes the record's title,
\* company, location, url and posted_date into that row and leaves its status,
\* notes and applied_at, the other rows and the number of rows as they were,
\* whatever status and notes the record carries.
C2_UpsertKeepsStatusAndNotes ==
    (hist.n > 0 /\ hist.op = "upsert" /\ HasJob(hist.pre, hist.job.job_id)) =>
        /\ Len(jobs) = Len(hist.pre)
        /\ \A i \in 1..Len(jobs) :
            IF hist.pre[i].job_id = hist.job.job_id
            THEN jobs[i] = [hist.pre[i] EXCEPT !.title = hist.job.title,
                                               !.company = hist.job.company,
                                               !.location = hist.job.location,
                                               !.url = hist.job.url,
                                               !.posted_date = hist.job.posted_date]
            ELSE jobs[i] = hist.pre[i]

\* C2's case: a stored row reached an excluded status by hand, and an upsert of
\* its job_id carrying another status and other notes changed its fields.
C2_Witness ==
    /\ hist.n > 0 /\ hist.op = "upsert" /\ HasJob(hist.pre, hist.job.job_id)
    /\ "status" \in DOMAIN hist.job
    /\ RowOf(hist.pre, hist.job.job_id).status \in Excluded
    /\ hist.job.status = "new" /\ hist.job.notes # RowOf(jobs, hist.job.job_id).notes
    /\ RowOf(jobs, hist.job.job_id).title # RowOf(hist.pre, hist.job.job_id).title
    /\ RowOf(jobs, hist.job.job_id).status = RowOf(hist.pre, hist.job.job_id).status

\* C3: a second upsert of the same record right after the first leaves the
\* table as the first call left it, with exactly one row of that job_id.
C3_UpsertIdempotent ==
    (hist.n > 0 /\ hist.op = "upsert" /\ hist.again) =>
        /\ jobs = hist.pre
        /\ Cardinality(RowsOf(jobs, hist.job.job_id)) = 1

\* C3's case: the first of the two calls inserted the row (the job_id was new),
\* the second call met it.
C3_Witness ==
    /\ hist.n = 2 /\ hist.op = "upsert" /\ hist.again
    /\ Len(jobs) = 1
    /\ "status" \in DOMAIN hist.job /\ hist.job.status = "hired"
    /\ RowOf(jobs, hist.job.job_id).status = "hired"

\* C1: no step of any cycle (upsert, draft-and-apply, reconcile, and
\* set_job_status as they call it) removes a row or gives the status new to a
\* row that is stored with another status; so a replied, hired or closed job
\* never goes back to new.
C1_NeverBackToNew ==
    [][\A i \in 1..Len(jobs) :
          /\ i <= Len(jobs')
          /\ jobs'[i].job_id = jobs[i].job_id
          /\ (jobs'[i].status = "new" => jobs[i].status = "new")]_vars

\* C1's case: a cycle has upserted a listing whose row is replied, hired or
\* closed (the record it upserted carries status new).
C1_Witness ==
    \E p \in Threads : \E k \in 1..Len(log[p]) :
        /\ log[p][k].op = "update"
        /\ StatusOf(jobs, log[p][k].job_id) \in Excluded
        /\ RowOf(jobs, log[p][k].job_id).posted_date \in Dates

Ids(rows) == {rows[i].job_id : i \in 1..Len(rows)}

\* C4: when a reconcile call selects the jobs for a message, no job that is
\* replied, hired or closed at that moment is among the selected rows; while
\* the message is processed the selected rows only shrink; and a step of the
\* matching loop writes no row but the selected one it is testing.
C4_ExcludedNeverMatched ==
    [][\A p \in Threads :
          /\ (pc'[p] = "rec_match" /\ loc'[p].mi # loc[p].mi) =>
                \A i \in 1..Len(jobs) :
                    jobs[i].status \in Excluded => jobs[i].job_id \notin Ids(loc'[p].rrows)
          /\ (pc[p] = "rec_match" /\ pc'[p] = "rec_match" /\ loc'[p].mi = loc[p].mi) =>
                Ids(loc'[p].rrows) \subseteq Ids(loc[p].rrows)
          /\ (pc[p] = "rec_match" /\ loc'[p] # loc[p]) =>
                \A i \in 1..Len(jobs) :
                    jobs'[i] # jobs[i] =>
                        /\ loc[p].rrows # <<>>
                        /\ jobs[i].job_id = Head(loc[p].rrows).job_id]_vars

\* C4's case: a reconcile call has gone through the rows of its last message,
\* whose From/Subject contains the company of a hired job; the job is as it was.
C4_Witness ==
    \E p \in Threads :
        /\ pc[p] = "rec_match" /\ loc[p].rrows = <<>> /\ loc[p].mi = Len(loc[p].msgs)
        /\ ~loc[p].subj_is_bytes
        /\ \E i \in 1..Len(jobs) :
              /\ jobs[i].status = "hired"
              /\ Matches(jobs[i].company, loc[p].frm, loc[p].subj)
              /\ jobs[i].notes = <<>>

Count(entries, op, job_id) ==
    Cardinality({k \in 1..Len(entries) : entries[k].op = op /\ entries[k].job_id = job_id})

\* The rows loop of thread p's cycle is over and the mail check not yet begun.
StageDone(p) == pc[p] = "draft" /\ loc[p].rows = <<>>

\* No other cycle has run since thread p's cycle began its stage.
Undisturbed(p) == loc[p].pre.n = started

\* C5: at the end of the draft-and-apply stage of a cycle, however cycles
\* interleave, every job the stage took was selected as new, the stage has
\* written exactly one Application row and exactly one status for each of
\* them and nothing for any other job, and none of them is new.  When no other
\* cycle ran meanwhile, the tables show it: the jobs taken are exactly those
\* that were new, applications grew by one row for each, and every row that
\* was not new is as it was.
C5_DraftExactlyOnce ==
    \A p \in Threads :
        StageDone(p) =>
            LET d == loc[p].drafted
                pre == loc[p].pre
                added == (pre.napps + 1)..Len(applications)
            IN  /\ \A k \in 1..Len(d) : d[k].status = "new"
                /\ Cardinality(Ids(d)) = Len(d)
                /\ \A id \in Ids(d) :
                      /\ Count(log[p], "app", id) = 1
                      /\ Count(log[p], "set", id) = 1
                      /\ StatusOf(jobs, id) # "new"
                /\ \A k \in 1..Len(log[p]) : log[p][k].job_id \in Ids(d)
                /\ Undisturbed(p) =>
                      /\ Ids(d) = {pre.jobs[i].job_id :
                                      i \in {k \in 1..Len(pre.jobs) : pre.jobs[k].status = "new"}}
                      /\ Len(applications) = pre.napps + Len(d)
                      /\ \A id \in Ids(d) :
                            Cardinality({k \in added : applications[k].job_id = id}) = 1
                      /\ Len(jobs) = Len(pre.jobs)
                      /\ \A i \in 1..Len(pre.jobs) :
                            pre.jobs[i].status # "new" => jobs[i] = pre.jobs[i]

\* C5's case: a stage that took two new jobs and ran undisturbed, while the
\* store held a third job that was not new.
C5_Witness ==
    \E p \in Threads :
        /\ StageDone(p) /\ Undisturbed(p) /\ Len(loc[p].drafted) = 2
        /\ \E i \in 1..Len(loc[p].pre.jobs) : loc[p].pre.jobs[i].status # "new"

\* C6: at most one execution of run_full_cycle is in progress.
C6_SingleFlight == Cardinality({p \in Threads : Running(p)}) <= 1

\* The application rows whose stored result is the text of an apply_to_job
\* return with the given outcome.
AppsWith(outcome) ==
    {k \in 1..Len(applications) :
        /\ applications[k].result[1] = "str"
        /\ applications[k].result[2].result = outcome}

\* C8: in auto mode the status write that ends the loop body of a new job
\* gives applied for the result applied, queued_manual for manual_required,
\* and error or automation_error for every other result; it writes no row but
\* that job's.
C8_AutoOutcomeMapping ==
    [][\A p \in Threads :
          (mode = "auto" /\ pc[p] = "set_status" /\ pc'[p] = "draft") =>
              LET id == Head(loc[p].rows).job_id
                  r == loc[p].result.result
                  st == StatusOf(jobs', id)
              IN  /\ StatusOf(jobs, id) = "new"
                  /\ r \in {"applied", "manual_required", "no_url", "selenium_error"}
                  /\ r = "applied" => st = "applied"
                  /\ r = "manual_required" => st = "queued_manual"
                  /\ r \notin {"applied", "manual_required"} =>
                        st \in {"error", "automation_error"}
                  /\ \A i \in 1..Len(jobs) :
                        jobs'[i] # jobs[i] => jobs[i].job_id = id]_vars

\* C8's case: in auto mode one job's apply came back manual_required and the
\* job is queued_manual, another's came back no_url and the job is in error.
C8_Witness ==
    /\ mode = "auto"
    /\ \E k \in AppsWith("manual_required") :
          StatusOf(jobs, applications[k].job_id) = "queued_manual"
    /\ \E k \in AppsWith("no_url") :
          StatusOf(jobs, applications[k].job_id) = "error"

\* C9: no step of the program, however its cycles interleave, changes the
\* status of a replied, hired or closed job to new, queued_manual, applied,
\* error or automation_error.
C9_ForwardMoving ==
    [][\A i \in 1..Len(jobs) :
          jobs[i].status \in Excluded =>
              jobs'[i].status \notin {"new", "queued_manual", "applied", "error",
                                      "automation_error"}]_vars

\* The company occurs in the From+Subject text of the message (a message
\* without a Subject line has the empty subject).
MsgMatches(company, msg) ==
    LET h == ParseHeaders(msg) IN Matches(company, h.frm, h.subj)

\* Thread p's reconcile call has ended and no inbox operation failed: it went
\* through its messages, or left the matching loop by an exception.
ReconcileEnded(p) == pc[p] = "finish" /\ loc[p].rec_out \in {"ok", "type_error"}

\* Row i of the table the call found is eligible and some fetched message
\* contains its company.
Matched(p, i) ==
    /\ loc[p].pre.jobs[i].status \notin Excluded
    /\ \E k \in 1..Len(loc[p].msgs) : MsgMatches(loc[p].pre.jobs[i].company, loc[p].msgs[k])

\* C10: when a reconcile call has ended without an inbox failure, every job
\* that was eligible and whose company occurs in the From+Subject text of a
\* fetched message is replied, with the notes of one such message; every other
\* row is as the call found it.
C10_ReconcileMarksEveryMatch ==
    \A p \in Threads :
        ReconcileEnded(p) =>
            /\ Len(jobs) = Len(loc[p].pre.jobs)
            /\ \A i \in 1..Len(jobs) :
                  IF Matched(p, i)
                  THEN /\ jobs[i].status = "replied"
                       /\ \E k \in 1..Len(loc[p].msgs) :
                             /\ MsgMatches(jobs[i].company, loc[p].msgs[k])
                             /\ jobs[i].notes = ReplyNotes(ParseHeaders(loc[p].msgs[k]).frm,
                                                           ParseHeaders(loc[p].msgs[k]).subj)
                  ELSE jobs[i] = loc[p].pre.jobs[i]

\* C7: in manual mode no cycle holds a result of apply_to_job and no job is
\* applied; at the end of the draft-and-apply stage every job the stage took
\* is queued_manual and its Application row says queued_for_manual; and when
\* a reconcile call has ended without an inbox failure, every queued_manual
\* job whose company occurs in a fetched message is replied.
C7_ManualMode ==
    mode = "manual" =>
        \A p \in Threads :
            /\ loc[p].result = NoResult
            /\ \A i \in 1..Len(jobs) : jobs[i].status # "applied"
            /\ StageDone(p) =>
                  \A k \in 1..Len(loc[p].drafted) :
                      /\ StatusOf(jobs, loc[p].drafted[k].job_id) = "queued_manual"
                      /\ applications[loc[p].pre.napps + k] =
                            [job_id |-> loc[p].drafted[k].job_id, cover |-> "stub",
                             resume_path |-> ResumePath,
                             result |-> <<"queued_for_manual">>]
            /\ ReconcileEnded(p) =>
                  \A i \in 1..Len(loc[p].pre.jobs) :
                      (loc[p].pre.jobs[i].status = "queued_manual" /\ Matched(p, i)) =>
                          jobs[i].status = "replied"

\* ---------------------------------------------------------------- C11

\* A world in which the listing is found, the apply is left for the operator,
\* and the inbox holds two messages that name the company.
RepliesWorld == [indeed |-> {<<CardAb>>}, naukri |-> {<<>>},
                 envs |-> {e \in CycleEnvs : e.driver = "ok" /\ e.file = "missing"},
                 inboxes |-> {<<MsgBoth, MsgBoth>>},
                 indeed_out |-> {"page"}, naukri_out |-> {"page"},
                 llm |-> {"no_endpoint"}]

\* The program in that world, with cycles free to overlap.
NextReplies ==
    \/ \E p \in Threads : Start(p)
    \/ \E p \in Threads : Search(p, RepliesWorld)
    \/ \E p \in Threads : UpsertInsert(p)
    \/ \E p \in Threads : UpsertUpdate(p)
    \/ \E p \in Threads : SelectNew(p)
    \/ \E p \in Threads : DraftAndRecord(p, RepliesWorld)
    \/ \E p \in Threads : SetStatus(p)
    \/ \E p \in Threads : CheckGmail(p, RepliesWorld)
    \/ \E p \in Threads : RecMatch(p)
    \/ \E p \in Threads : RecNext(p)
    \/ \E p \in Threads : Finish(p)

SpecReplies == Init /\ [][NextReplies]_vars

\* Thread p is in, or at the end of, a reconcile call that fetched messages.
InReconcile(p) == pc[p] \in {"rec_match", "finish"} /\ loc[p].msgs # <<>>

\* C11: a reconcile call writes the status of a job at most once, however many
\* of its messages match the job's company.
C11_AtMostOncePerCall ==
    \A p \in Threads :
        InReconcile(p) =>
            \A id \in JobIds(jobs) : Count(log[p], "set", id) <= 1

\* ---------------------------------------------------------------- C12

\* Records of one job_id that differ in their other fields.
UpsertRecs ==
    {[MakeJob(CardAb, d) EXCEPT !.title = t, !.location = l, !.url = u] :
        d \in {Earlier, "d2"}, t \in {<<"T">>, <<"N">>}, l \in {<<"X">>, <<"Y">>},
        u \in {<<"u">>, None}}

\* Two threads are each about to call add_or_update_job with a record of the
\* same job_id; hist keeps the two records.
InitUpsert ==
    /\ jobs \in InitStores
    /\ applications = <<>>
    /\ mode = "manual"
    /\ creds = FALSE
    /\ pc = [p \in Threads |-> "upsert"]
    /\ \E calls \in [Threads -> UpsertRecs] :
          /\ loc = [p \in Threads |-> [Loc0 EXCEPT !.jobs_found = <<calls[p]>>]]
          /\ hist = [n |-> 0, calls |-> calls]
    /\ started = 0
    /\ log = [p \in Threads |-> <<>>]

\* The INSERT and UPDATE statements of the two calls in any order.
NextUpsert ==
    \/ \E p \in Threads : UpsertInsert(p)
    \/ \E p \in Threads : UpsertUpdate(p)

SpecUpsert == InitUpsert /\ [][NextUpsert]_vars

\* Thread p's add_or_update_job call has returned.
Upserted(p) == pc[p] = "upsert" /\ loc[p].jobs_found = <<>>

\* The five fields an upsert writes.
Described(r) == <<r.title, r.company, r.location, r.url, r.posted_date>>

\* C12: while two upserts of one job_id run in any interleaving, no two rows of
\* jobs share a job_id; when both have returned there is exactly one row of
\* that job_id and its title, company, location, url and posted_date are those
\* of one of the two records.
C12_ConcurrentUpsert ==
    "calls" \in DOMAIN hist =>
        /\ \A i, j \in 1..Len(jobs) : jobs[i].job_id = jobs[j].job_id => i = j
        /\ (\A p \in Threads : Upserted(p)) =>
              LET id == hist.calls["main"].job_id IN
              /\ Cardinality(RowsOf(jobs, id)) = 1
              /\ \E p \in Threads : Described(RowOf(jobs, id)) = Described(hist.calls[p])

\* C12's case: the scheduler's call inserted the row, the other call's INSERT
\* raised and its UPDATE came last, with records that differ in title,
\* location, url and posted_date.
C12_Witness ==
    /\ "calls" \in DOMAIN hist
    /\ \A p \in Threads : Upserted(p)
    /\ Count(log["scheduler"], "insert", hist.calls["main"].job_id) = 1
    /\ Count(log["main"], "update", hist.calls["main"].job_id) = 1
    /\ hist.calls["main"].title # hist.calls["scheduler"].title
    /\ hist.calls["main"].location # hist.calls["scheduler"].location
    /\ hist.calls["main"].url # hist.calls["scheduler"].url
    /\ hist.calls["main"].posted_date # hist.calls["scheduler"].posted_date
    /\ Described(RowOf(jobs, hist.calls["main"].job_id)) = Described(hist.calls["main"])

\* ---------------------------------------------------------------- faults

\* The stage of run_full_cycle thread p is in.
StageOf(p) ==
    IF pc[p] = "search" THEN "indeed"
    ELSE IF pc[p] \in {"upsert", "upsert_update"} THEN "upsert"
    ELSE IF pc[p] \in {"draft", "set_status"} THEN "draft"
    ELSE "reconcile"

\* The next statement of thread p's cycle is a statement on the database: the
\* INSERT or UPDATE of an upsert, the SELECT of the new rows,
\* record_application, set_job_status, the SELECT for the next message.
StoreOpNext(p) ==
    \/ pc[p] \in {"upsert", "upsert_update", "set_status"}
    \/ pc[p] = "draft" /\ loc[p].rows # <<>>
    \/ /\ pc[p] = "rec_match" /\ loc[p].rrows # <<>>
       /\ ~MatchRaises(Head(loc[p].rrows), loc[p].subj_is_bytes)
       /\ Matches(Head(loc[p].rrows).company, loc[p].frm, loc[p].subj)
    \/ pc[p] = "rec_match" /\ loc[p].rrows = <<>> /\ loc[p].mi < Len(loc[p].msgs)

\* That statement raises a sqlite3 error other than IntegrityError: nothing is
\* written; the exception leaves the store function and meets the try
\* statements of run_full_cycle.
StorageFails(p) ==
    /\ StoreOpNext(p)
    /\ Raise(p, [loc[p] EXCEPT !.exc = "storage",
                               !.rec_out = IF StageOf(p) = "reconcile"
                                           THEN "storage_error" ELSE @],
             StageOf(p), "storage", "finish")
    /\ UNCHANGED <<jobs, applications, started, log, Env>>

\* A world with every failure the cycle meets outside the database.
FaultWorld == [indeed |-> {<<>>, <<CardAb>>}, naukri |-> {<<>>, <<CardB>>},
               envs |-> {e \in CycleEnvs : e.file = "found"},
               inboxes |-> SeqsUpTo({MsgBoth}, MaxOverlapMsgs),
               indeed_out |-> {"raises", "page"},
               naukri_out |-> {"raises", "page"}, llm |-> {"error"}]

\* One statement of a cycle that runs alone.
StepFaulty(p) ==
    \/ Search(p, FaultWorld)
    \/ UpsertInsert(p)
    \/ UpsertUpdate(p)
    \/ SelectNew(p)
    \/ DraftAndRecord(p, FaultWorld)
    \/ SetStatus(p)
    \/ CheckGmail(p, FaultWorld)
    \/ RecMatch(p)
    \/ RecNext(p)
    \/ Finish(p)

\* Cycles that do not overlap, in that world, with a database that may fail.
NextFaulty ==
    \/ \E p \in Threads : Alone(p) /\ Start(p)
    \/ \E p \in Threads : Alone(p) /\ StepFaulty(p)
    \/ \E p \in Threads : Alone(p) /\ StorageFails(p)

\* A thread inside run_full_cycle keeps executing.
SpecFaulty ==
    /\ Init /\ [][NextFaulty]_vars
    /\ WF_vars(\E p \in Threads : Alone(p) /\ StepFaulty(p))

\* C13: a cycle in which a statement on the database failed has been aborted:
\* the exception left run_full_cycle, in whatever stage it was raised.
C13_StorageErrorsPropagate ==
    \A p \in Threads : loc[p].exc = "storage" => pc[p] = "raised"

\* The stages of a cycle, numbered in the order of run_full_cycle:
\* INGEST, UPSERT, DRAFT_AND_APPLY, RECONCILE, DONE.
StageNo(at) ==
    IF at = "search" THEN 1
    ELSE IF at \in {"upsert", "upsert_update"} THEN 2
    ELSE IF at \in {"draft", "set_status"} THEN 3
    ELSE IF at = "rec_match" THEN 4
    ELSE 5

\* A cycle has ended: it printed "Run finished", or an exception left it.
Ended(p) == pc[p] \in {"finish", "raised"}

\* The job_id search_indeed / search_naukri give a card.
CardId(card) == MakeJob(card, Earlier).job_id

\* C14: a cycle runs its stages in order (a step stays in its stage or enters
\* the next one; the reconcile stage may end at once, without a message to
\* match); only a failure of the database makes an exception leave the cycle;
\* every recent card either source returned is upserted, whatever the other
\* source did; and a cycle that began ends.
C14_StagesInOrder ==
    /\ [][\A p \in Threads :
            (Running(p) /\ pc'[p] # pc[p] /\ pc'[p] # "raised") =>
                \/ pc[p] = "finish" /\ pc'[p] = "idle"
                \/ pc[p] # "finish" /\ StageNo(pc'[p]) = StageNo(pc[p])
                \/ pc[p] # "finish" /\ StageNo(pc'[p]) = StageNo(pc[p]) + 1
                \/ pc[p] = "draft" /\ loc[p].rows = <<>> /\ pc'[p] = "finish"]_vars
    /\ [](\A p \in Threads :
            /\ pc[p] = "raised" => loc[p].exc = "storage"
            /\ StageNo(pc[p]) = 2 =>
                  \A k \in 1..Len(loc[p].cards) :
                      Recent(loc[p].cards[k].posted) =>
                          \/ CardId(loc[p].cards[k]) \in Ids(loc[p].jobs_found)
                          \/ Count(log[p], "insert", CardId(loc[p].cards[k])) = 1
                          \/ Count(log[p], "update", CardId(loc[p].cards[k])) = 1)
    /\ \A p \in Threads : pc[p] = "search" ~> Ended(p)

\* C14's case: a cycle printed "Run finished" although the second listing
\* source had failed, the generator had failed, the browser had not started
\* and the inbox had refused the login; the first source's job is in the
\* store, with status error and the fallback text as its cover letter.
C14_Witness ==
    \E p \in Threads :
        /\ pc[p] = "finish" /\ loc[p].errs = {"naukri"}
        /\ loc[p].rec_out = "imap_error" /\ loc[p].exc = "none"
        /\ StatusOf(jobs, CardId(CardAb)) = "error"
        /\ \E k \in 1..Len(applications) :
              /\ applications[k].job_id = CardId(CardAb)
              /\ applications[k].cover = LocalLlmGenerate("error")
              /\ applications[k].result =
                    RecordedResult("auto", [result |-> "selenium_error",
                                            detail |-> <<"driver">>])

\* run_now: run_full_cycle(), then return jsonify({"ok": True}); an exception
\* that leaves run_full_cycle leaves run_now too, and the server answers 500.
RunNow(at) ==
    IF at = "raised" THEN [http |-> "500", body |-> "error"]
    ELSE [http |-> "200", body |-> "ok_true"]

\* C15: when the cycle a run_now call started has ended, whatever failed in
\* it, the call returns {ok: true}.
C15_RunNowAcknowledges ==
    Ended("main") => RunNow(pc["main"]).body = "ok_true"

\* ---------------------------------------------------------- apply calls

\* The url values job.get("url") may yield: None, "", a link.
ApplyUrls == {None, <<>>, <<"u">>}

\* apply_to_job got past "if not url" and webdriver.Chrome returned a driver.
SessionOpened(job, env) ==
    job.url # None /\ job.url # <<>> /\ env.driver = "ok"

\* apply_to_job whose outer handler does not call quit.
QuitsMadeInnerOnly(job, env) ==
    IF ~SessionOpened(job, env) \/ env.get = "raises" THEN 0
    ELSE IF env.file = "found" /\ env.upload = "ok" /\ env.quit_fails > 0 THEN 2
    ELSE 1

\* The number of driver.quit() calls apply_to_job makes: one on the way to
\* "applied", a second in the inner handler when the first raised or when the
\* file input failed, one in the outer handler for whatever raised outside
\* the inner try or inside the inner handler.
QuitsMade(job, env) ==
    IF ~SessionOpened(job, env) THEN 0
    ELSE IF env.get = "raises" THEN 1
    ELSE IF env.file = "found" /\ env.upload = "ok"
        THEN (IF env.quit_fails = 0 THEN 1 ELSE IF env.quit_fails = 1 THEN 2 ELSE 3)
    ELSE (IF env.quit_fails = 0 THEN 1 ELSE 2)

\* The loop over the two button xpaths clicked a control: find_element and
\* click on the first, on the second when the first was missing or its click
\* raised; the bare except passes over both failures.
Clicked(env) ==
    env.button = "clicked" \/ env.submit = "clicked"

\* The calls of apply_to_job: a job row with each url, each browser.
ApplyCalls ==
    {[n |-> 0, op |-> "call", job |-> [MakeJob(CardAb, Earlier) EXCEPT !.url = url],
      env |-> env] : url \in ApplyUrls, env \in ApplyEnvs}

InitApply ==
    /\ jobs = <<>>
    /\ applications = <<>>
    /\ mode = "auto"
    /\ creds = FALSE
    /\ pc = [p \in Threads |-> "idle"]
    /\ loc = [p \in Threads |-> Loc0]
    /\ started = 0
    /\ log = [p \in Threads |-> <<>>]
    /\ hist \in ApplyCalls

\* apply_to_job(job); hist keeps the call and what it returned.
CallApply ==
    /\ hist.op = "call"
    /\ hist' = [n |-> hist.n + 1, op |-> "apply", job |-> hist.job, env |-> hist.env,
                ret |-> ApplyToJob(hist.job, hist.env),
                quits |-> QuitsMade(hist.job, hist.env)]
    /\ UNCHANGED <<jobs, applications, mode, creds, pc, loc, started, log>>

NextApply == CallApply

SpecApply == InitApply /\ [][NextApply]_vars

\* apply_to_job has returned.
Applied == hist.n > 0 /\ hist.op = "apply"

\* C16: every return of apply_to_job has a result out of applied,
\* manual_required, no_url, automation_error; no_url is returned exactly when
\* the job has no URL; a browser that cannot be started gives automation_error.
C16_OutcomeVocabulary ==
    Applied =>
        /\ hist.ret.result \in {"applied", "manual_required", "no_url", "automation_error"}
        /\ hist.ret.result = "no_url" <=> hist.job.url \in {None, <<>>}
        /\ (hist.job.url \notin {None, <<>>} /\ hist.env.driver = "raises") =>
               hist.ret.result = "automation_error"

C19_AppliedMeansSubmitted ==
    (Applied /\ hist.ret.result = "applied") =>
        /\ hist.env.file = "found" /\ hist.env.upload = "ok"
        /\ Clicked(hist.env)

\* ------------------------------------------------------ ingestion filter

\* The posted text has marker m in it at offset k, whatever the case.
MarkerAt(posted, m, k) ==
    /\ k + Len(m) <= Len(posted)
    /\ \A i \in 1..Len(m) : LowerChar(posted[k + i]) = m[i]

\* The posted text contains "today", "just posted" or "1 day".
HasMarker(posted) ==
    \E m \in {<<"t","o","d","a","y">>, <<"1"," ","d","a","y">>,
               <<"j","u","s","t"," ","p","o","s","t","e","d">>} :
        \E k \in 0..Len(posted) : MarkerAt(posted, m, k)

\* The job_ids thread p's upsert stage has still to upsert or has upserted.
UpsertIds(p) ==
    Ids(loc[p].jobs_found)
        \cup {log[p][k].job_id : k \in {i \in 1..Len(log[p]) : log[p][i].op \in {"insert", "update"}}}

\* C18: in the upsert stage of a cycle, every record that is or was handed to
\* add_or_update_job comes from a card of the pages read whose posted text
\* contains a marker, no card with another posted text or none is among them,
\* for either source, and the store never holds a row of such a card.
C18_OnlyRecentIngested ==
    /\ \A p \in Threads :
          StageNo(pc[p]) = 2 =>
              /\ \A id \in UpsertIds(p) :
                    \E k \in 1..Len(loc[p].cards) :
                        /\ CardId(loc[p].cards[k]) = id
                        /\ HasMarker(loc[p].cards[k].posted)
              /\ \A k \in 1..Len(loc[p].cards) :
                    ~HasMarker(loc[p].cards[k].posted) =>
                        CardId(loc[p].cards[k]) \notin UpsertIds(p)
    /\ \A c \in {CardOld, CardUndated} : ~HasJob(jobs, CardId(c))

\* C18's case: the first source's page held a card posted "2 days ago" and
\* the second source's a card posted "1 day ago"; the upsert stage has
\* inserted the second and nothing else.
C18_Witness ==
    \E p \in Threads :
        /\ pc[p] = "upsert" /\ loc[p].jobs_found = <<>>
        /\ loc[p].cards = <<CardOld, CardB>>
        /\ Len(log[p]) = 1 /\ Count(log[p], "insert", CardId(CardB)) = 1
        /\ HasJob(jobs, CardId(CardB)) /\ ~HasJob(jobs, CardId(CardOld))

\* ------------------------------------------------------- nothing left new

\* C20: when a cycle that ran alone and met no failing database statement
\* prints "Run finished", no row of jobs has status new, in either mode.
C20_NothingLeftNew ==
    \A p \in Threads :
        (pc[p] = "finish" /\ loc[p].exc = "none") =>
            \A i \in 1..Len(jobs) : jobs[i].status # "new"

\* C20's case: the first cycle of a run in manual mode has finished; the row
\* an earlier run left new and the row this cycle inserted are both queued.
C20_Witness ==
    \E p \in Threads :
        /\ pc[p] = "finish" /\ loc[p].exc = "none" /\ started = 1 /\ mode = "manual"
        /\ Len(jobs) = 2
        /\ HasJob(jobs, CardId(CardNoCompany)) /\ HasJob(jobs, CardId(CardAb))
        /\ RowOf(jobs, CardId(CardNoCompany)).posted_date = Earlier
        /\ RowOf(jobs, CardId(CardAb)).posted_date \in Dates
        /\ \A i \in 1..Len(jobs) : jobs[i].status = "queued_manual"

\* ------------------------------------------------ attempt recorded first

\* The statuses the rows loop of run_full_cycle sets.
DraftStatuses == {"queued_manual", "applied", "error"}

\* applications holds a row for the job.
HasApplication(job_id) ==
    \E k \in 1..Len(applications) : applications[k].job_id = job_id

\* C21: in every state, also after an exception cut a cycle short between
\* record_application and set_job_status, every job whose status is
\* queued_manual, applied or error has an Application row.
C21_RecordedBeforeStatus ==
    \A i \in 1..Len(jobs) :
        jobs[i].status \in DraftStatuses => HasApplication(jobs[i].job_id)

\* C21's case: the rows loop recorded and set the status of one job, recorded
\* the attempt for a second, and the database failed in set_job_status: the
\* exception left the cycle, the second job is still new and has its row.
C21_Witness ==
    \E p \in Threads :
        /\ pc[p] = "raised" /\ loc[p].exc = "storage" /\ loc[p].rows # <<>>
        /\ loc[p].cover # "None"
        /\ StatusOf(jobs, Head(loc[p].rows).job_id) = "new"
        /\ HasApplication(Head(loc[p].rows).job_id)
        /\ \E i \in 1..Len(jobs) :
              jobs[i].status \in DraftStatuses /\ HasApplication(jobs[i].job_id)

====
